---- MODULE Spec2Model ----
(***************************************************************************)
(* cadet: the `import` command of src/src/cadet.py.                        *)
(*                                                                         *)
(* One run of `upload` is modelled from the parsed command line to the     *)
(* process exit: argument validation, the connection step, the opening of  *)
(* the source, and the delimited / structured upload loops, one loop       *)
(* iteration per step.  Text is modelled as a sequence of characters (for  *)
(* the source file) or of tokens (for the connection string), so that      *)
(* str.split, str.replace, `in` and csv.reader are computed, not assumed.  *)
(***************************************************************************)
EXTENDS Integers, Sequences, FiniteSets, TLC

VARIABLES
    args,           \* the parsed command line: source, file_type, uri, primary_key, connection_string
    env,            \* the world outside the command:
                    \*   patched: get_upload_client is replaced by a double that returns a
                    \*     container (test_cadet_v2.py, lines 84 and 100-101)
                    \*   credsAccepted: the store accepts the URL and key of CosmosClient(...)
                    \*   fileExists, file: what open(source_path) finds
    pc,             \* position of the run
    outcome,        \* [kind, msg]: how the run ended ("none" while running)
    conn,           \* [url, auth]: _connection_url and _auth['masterKey'] once bound
    clientCalls,    \* number of CosmosClient(...) constructions
    fileOpen,       \* the `with open(...)` stream is open
    fileOpened,     \* the stream was opened at some point of the run
    nextLine,       \* csv_reader / list iterator position (1-based index of the next line or item)
    line_count,     \* read_and_upload_csv's line_count
    csv_cols,       \* read_and_upload_csv's csv_cols
    document,       \* the one dict object created at line 151
    json_array,     \* read_and_upload_json's json_array
    calls,          \* upsert_item calls made: [doc, ok, streamOpen], doc as it is at the call
    upserted_docs,  \* MockContainerClient.upserted_docs (references, not copies)
    store,          \* documents the sink accepted, as serialised at the call
    pos,            \* progress bar: units completed
    length,         \* progress bar: units total
    output          \* click.echo lines

vars == <<args, env, pc, outcome, conn, clientCalls, fileOpen, fileOpened, nextLine,
          line_count, csv_cols, document, json_array, calls, upserted_docs, store,
          pos, length, output>>

----------------------------------------------------------------------------
(* Bounds of the explored inputs *)

MaxLines == 3
MaxItems == 2

----------------------------------------------------------------------------
(* Text helpers: Python's str operations on sequences *)

\* x in s, for a one-token / one-character x
Contains(s, x) == \E i \in 1..Len(s) : s[i] = x

FirstIndex(s, x) == CHOOSE i \in 1..Len(s) : s[i] = x /\ \A j \in 1..(i - 1) : s[j] # x

\* s.split(d): always at least one part
RECURSIVE Split(_, _)
Split(s, d) ==
    IF ~Contains(s, d) THEN <<s>>
    ELSE LET i == FirstIndex(s, d)
         IN  <<SubSeq(s, 1, i - 1)>> \o Split(SubSeq(s, i + 1, Len(s)), d)

\* s.replace(x, '') for a one-token x
RECURSIVE Remove(_, _)
Remove(s, x) ==
    IF s = <<>> THEN <<>>
    ELSE IF Head(s) = x THEN Remove(Tail(s), x)
    ELSE <<Head(s)>> \o Remove(Tail(s), x)

\* Optional values: None, or a present text
None == [some |-> FALSE, val |-> <<>>]
Some(v) == [some |-> TRUE, val |-> v]

----------------------------------------------------------------------------
(* Program constants *)

TAB == "\t"

\* DELIMITERS
DelimiterKeys == {"CSV", "TSV"}
Delimiter(file_type) == IF file_type = "CSV" THEN "," ELSE TAB

\* FILE_ENDINGS, and source.upper().endswith(FILE_ENDINGS) on the name's extension
FILE_ENDINGS == {".CSV", ".TSV", ".JSON"}

\* str.upper() on the strings of the explored inputs
Upper(s) ==
    CASE s = ".csv" -> ".CSV"
      [] s = ".tsv" -> ".TSV"
      [] s = ".json" -> ".JSON"
      [] s = ".txt" -> ".TXT"
      [] s = "csv" -> "CSV"
      [] s = "tsv" -> "TSV"
      [] s = "json" -> "JSON"
      [] OTHER -> s

EndsWithFileEnding(ext) == Upper(ext) \in FILE_ENDINGS

----------------------------------------------------------------------------
(* Credentials: upload, lines 75-96 *)

EP == "AccountEndpoint="
KY == "AccountKey="
SEMI == ";"

BadParameter(m) == [kind |-> "BadParameter", msg |-> m]
Running == [kind |-> "none", msg |-> ""]
NoConn == [url |-> <<>>, auth |-> <<>>]

MsgEnding == "We currently only support CSV, TSV, and JSON uploads from Cadet"
MsgRequired == "REQUIRED: Connection string OR *both* a URI and a key"
MsgFormat == "The connection string is not properly formatted."
MsgAuth == "Authentication failure to Azure Cosmos"

\* The if / elif / elif of lines 76-96: the error raised, or the bound
\* _connection_url and _auth.  connection_str[1] on a one-part split is the
\* IndexError the bare except turns into the same BadParameter.
ResolveCredentials(uri, primary_key, connection_string) ==
    IF (~uri.some \/ ~primary_key.some) /\ ~connection_string.some
    THEN [ok |-> FALSE, err |-> BadParameter(MsgRequired), conn |-> NoConn]
    ELSE IF uri.some /\ primary_key.some
    THEN [ok |-> TRUE, err |-> Running,
          conn |-> [url |-> uri.val, auth |-> primary_key.val]]
    ELSE LET cs == connection_string.val
             connection_str == Split(cs, SEMI)
         IN  IF ~Contains(cs, EP) \/ ~Contains(cs, KY)
             THEN [ok |-> FALSE, err |-> BadParameter(MsgFormat), conn |-> NoConn]
             ELSE IF Len(connection_str) < 2
             THEN [ok |-> FALSE, err |-> BadParameter(MsgFormat), conn |-> NoConn]
             ELSE [ok |-> TRUE, err |-> Running,
                   conn |-> [url |-> Remove(connection_str[1], EP),
                             auth |-> Remove(connection_str[2], KY)]]

----------------------------------------------------------------------------
(* The connection step: get_upload_client, lines 114-121 *)

\* Names bound when line 121 runs: the function's parameters and the module's globals
GetUploadClientLocals == {"connection_url", "auth", "database_name", "container_name",
                          "cosmos_client", "database"}
ModuleGlobals == {"csv", "os", "sys", "click", "json", "CosmosClient", "DELIMITERS",
                  "FILE_ENDINGS", "cadet", "upload", "get_full_source_path",
                  "get_upload_client", "read_and_upload", "read_and_upload_csv",
                  "read_and_upload_json"}

NameResolves(name) == name \in GetUploadClientLocals \cup ModuleGlobals

\* What get_upload_client does once CosmosClient(connection_url, auth) was called:
\* the constructor raises when the store rejects the credentials; line 121 reads
\* the name collection_name.
GetUploadClient(credsAccepted) ==
    IF ~credsAccepted THEN "ConnectionError"
    ELSE IF ~NameResolves("collection_name") THEN "NameError"
    ELSE "container"

----------------------------------------------------------------------------
(* JSON values and what Python does with them: read_and_upload_json *)

\* A parsed value: its kind, its characters or keys (text), its elements (items)
JNull == [kind |-> "null", text |-> <<>>, items |-> <<>>]
JNum == [kind |-> "number", text |-> <<>>, items |-> <<>>]
JStr(chars) == [kind |-> "string", text |-> chars, items |-> <<>>]
\* an object, by its keys in order (the values play no part in the loop)
JObj(keys) == [kind |-> "object", text |-> keys, items |-> <<>>]
JArr(elems) == [kind |-> "array", text |-> <<>>, items |-> elems]

\* len(x) raises TypeError for None and numbers
HasLen(v) == v.kind \in {"string", "object", "array"}
PyLen(v) == IF v.kind = "array" THEN Len(v.items) ELSE Len(v.text)

\* the i-th value `for item in x` yields: an element of a list, a key of a dict,
\* a one-character string of a str
IterItem(v, i) == IF v.kind = "array" THEN v.items[i] ELSE JStr(<<v.text[i]>>)

\* sys.getsizeof (CPython 3.11, 64 bit) of a parsed JSON value
GetSizeOfItem(v) ==
    CASE v.kind = "object" -> IF v.text = <<>> THEN 64 ELSE 184
      [] v.kind = "string" -> 49 + Len(v.text)
      [] v.kind = "number" -> 28
      [] v.kind = "array" -> 56 + 8 * Len(v.items)
      [] OTHER -> 16

\* sys.getsizeof of a row list built by csv.reader (appends: capacity in fours)
GetSizeOfRow(row) ==
    IF Len(row) = 0 THEN 56 ELSE 56 + 8 * (4 * ((Len(row) + 3) \div 4))

----------------------------------------------------------------------------
(* Delimited text: csv.reader and the record built per row *)

\* One row of csv.reader for a line without quotes: [] for a blank line
CsvRow(line, delim) == IF line = <<>> THEN <<>> ELSE Split(line, delim)

\* os.stat(source_path).st_size: one byte per character, one per line end
RECURSIVE SourceSize(_)
SourceSize(lines) ==
    IF lines = <<>> THEN 0 ELSE Len(Head(lines)) + 1 + SourceSize(Tail(lines))

EmptyDict == [k \in {} |-> <<>>]

\* d[k] = v
DictSet(d, k, v) == [x \in (DOMAIN d) \cup {k} |-> IF x = k THEN v ELSE d[x]]

\* FillDocument with `document[col] = row[0]`: every column gets the first field
RECURSIVE FillDocument_FirstField(_, _, _, _)
FillDocument_FirstField(doc, cols, row, ind) ==
    IF ind > Len(cols) THEN [doc |-> doc, raised |-> FALSE]
    ELSE IF ind > Len(row) THEN [doc |-> doc, raised |-> TRUE]
    ELSE FillDocument_FirstField(DictSet(doc, cols[ind], row[1]), cols, row, ind + 1)

\* Lines 159-160, `for ind, col in enumerate(csv_cols): document[col] = row[ind]`,
\* from index ind on: the loop stops where row[ind] raises IndexError, the
\* assignments made before it kept.
RECURSIVE FillDocument(_, _, _, _)
FillDocument(doc, cols, row, ind) ==
    IF ind > Len(cols) THEN [doc |-> doc, raised |-> FALSE]
    ELSE IF ind > Len(row) THEN [doc |-> doc, raised |-> TRUE]
    ELSE FillDocument(DictSet(doc, cols[ind], row[ind]), cols, row, ind + 1)

----------------------------------------------------------------------------
(* Outcomes and the exit code click gives them *)

Ok == [kind |-> "ok", msg |-> ""]
Raised(k, m) == [kind |-> k, msg |-> m]

MsgUploadFailed == "Upload failed"
MsgComplete == "Upload complete!"
MsgStarting == "Starting the upload"
MsgSize == "Source file total size is: %s bytes"

\* click, standalone mode: a UsageError (BadParameter) exits 2, any other
\* ClickException 1, an exception click does not know ends the process with 1
ExitCode(o) ==
    CASE o.kind = "none" -> -1
      [] o.kind = "ok" -> 0
      [] o.kind = "BadParameter" -> 2
      [] OTHER -> 1

\* PcAfterUpsert with an except clause that does not raise: skip and continue
PcAfterUpsert_Swallow(loop, ok) == loop

\* The upsert's try/except of lines 162-166 and 178-182: where the loop goes
PcAfterUpsert(loop, ok) == IF ok THEN loop ELSE "done"

\* What the except clause raises: line 166 a ClickException; line 182 calls
\* ClickException with two positional arguments, which is a TypeError
UpsertFailure(loop) ==
    IF loop = "csv_loop" THEN Raised("ClickException", MsgUploadFailed)
    ELSE Raised("TypeError", "ClickException.__init__() takes 2 positional arguments but 3 were given")

\* StreamOpenAfterExit with a close() at the end of the block instead of `with`
StreamOpenAfterExit_LeakOnError(byException) == byException

\* The `with open(...)` of line 129: the stream's state once the block is left,
\* by return or by exception
StreamOpenAfterExit(byException) == FALSE

\* json.load on the file: text that is no JSON document raises JSONDecodeError
JsonLoads(file) == file.fmt = "json"

FileType == Upper(args.file_type)

----------------------------------------------------------------------------
(* The explored inputs *)

SeqsUpTo(S, n) == UNION {[1..k -> S] : k \in 0..n}

Sources == {".csv", ".CSV", ".json", ".txt"}

URI == <<"https://x/">>
KEY == <<"KEY">>

ConnStrings ==
    { <<EP, "https://x/", SEMI, KY, "Y", SEMI>>,
      <<EP, "https://x/", SEMI, KY, "Y">>,
      <<KY, "Y", SEMI, EP, "https://x/">>,
      <<EP, "https://x/", SEMI>>,
      <<EP, "https://x/">>,
      <<KY, "Y", SEMI>>,
      <<EP, "https://x/", KY, "Y">>,
      <<EP, "https://x/", KY, "Y", SEMI>>,
      <<"garbage">>,
      <<>> }

LineSet ==
    { <<>>,
      <<"a">>,
      <<"a", ",", "b">>,
      <<"b", ",", "a">>,
      <<"a", ",", "a">>,
      <<"a", ",", "b", ",", "c">>,
      <<"a", TAB, "b">> }

TextFile(lines) == [fmt |-> "text", lines |-> lines, doc |-> JNull]
JsonFile(doc) == [fmt |-> "json", lines |-> <<>>, doc |-> doc]

ItemSet == {JObj(<<"a">>), JObj(<<"b">>), JNum}

JsonDocs ==
    {JNull, JNum, JStr(<<"a", "b">>), JObj(<<"a">>), JObj(<<>>)}
        \cup {JArr(elems) : elems \in SeqsUpTo(ItemSet, MaxItems)}

TextFiles == {TextFile(lines) : lines \in SeqsUpTo(LineSet, MaxLines)}
JsonFiles == {JsonFile(doc) : doc \in JsonDocs}

DefaultFile == TextFile(<<<<"a", ",", "b">>, <<"a", ",", "b">>>>)

\* Every credential combination, against one small file
InitCredentials ==
    /\ args \in [source : Sources, file_type : {"csv"},
                 uri : {None, Some(URI)}, primary_key : {None, Some(KEY)},
                 connection_string : {None} \cup {Some(c) : c \in ConnStrings}]
    /\ env \in [patched : BOOLEAN, credsAccepted : BOOLEAN,
                fileExists : {TRUE}, file : {DefaultFile}]

\* Every file, with a URI and a key, behind the test's container double
InitPipeline ==
    /\ \E ft \in {"csv", "TSV", "JSON"} :
         /\ args = [source |-> ".csv", file_type |-> ft, uri |-> Some(URI),
                    primary_key |-> Some(KEY), connection_string |-> None]
         /\ env \in [patched : {TRUE}, credsAccepted : {TRUE}, fileExists : BOOLEAN,
                     file : IF ft = "JSON" THEN JsonFiles \cup {DefaultFile}
                            ELSE TextFiles]

Init ==
    /\ (InitCredentials \/ InitPipeline)
    /\ pc = "start"
    /\ outcome = Running
    /\ conn = NoConn
    /\ clientCalls = 0
    /\ fileOpen = FALSE
    /\ fileOpened = FALSE
    /\ nextLine = 1
    /\ line_count = 0
    /\ csv_cols = <<>>
    /\ document = EmptyDict
    /\ json_array = JNull
    /\ calls = <<>>
    /\ upserted_docs = <<>>
    /\ store = <<>>
    /\ pos = 0
    /\ length = 0
    /\ output = <<>>

----------------------------------------------------------------------------
(* The run *)

pipeVars == <<fileOpen, fileOpened, nextLine, line_count, csv_cols, document,
              json_array, calls, upserted_docs, store, pos, length, output>>

\* upload, lines 70-96: the extension check and the credentials
Validate ==
    /\ pc = "start"
    /\ IF ~EndsWithFileEnding(args.source)
       THEN /\ outcome' = BadParameter(MsgEnding)
            /\ pc' = "done"
            /\ conn' = conn
       ELSE LET r == ResolveCredentials(args.uri, args.primary_key,
                                        args.connection_string)
            IN  IF r.ok
                THEN /\ conn' = r.conn
                     /\ pc' = "connect"
                     /\ outcome' = outcome
                ELSE /\ outcome' = r.err
                     /\ pc' = "done"
                     /\ conn' = conn
    /\ UNCHANGED <<args, env, clientCalls, pipeVars>>

\* upload, lines 98-102: get_upload_client, or the double that stands for it
Connect ==
    /\ pc = "connect"
    /\ IF env.patched
       THEN /\ pc' = "open"
            /\ UNCHANGED <<clientCalls, outcome>>
       ELSE /\ clientCalls' = clientCalls + 1
            /\ IF GetUploadClient(env.credsAccepted) = "container"
               THEN /\ pc' = "open"
                    /\ outcome' = outcome
               ELSE /\ pc' = "done"
                    /\ outcome' = BadParameter(MsgAuth)
    /\ UNCHANGED <<args, env, conn, pipeVars>>

\* upload lines 105-109 and read_and_upload lines 129-140: open, echo, dispatch
OpenSource ==
    /\ pc = "open"
    /\ IF ~env.fileExists
       THEN /\ outcome' = Raised("FileError", "FileNotFoundError")
            /\ pc' = "done"
            /\ UNCHANGED <<fileOpen, fileOpened, output>>
       ELSE /\ fileOpen' = TRUE
            /\ fileOpened' = TRUE
            /\ output' = output \o <<MsgStarting, MsgSize>>
            /\ pc' = IF FileType \in DelimiterKeys THEN "csv_start" ELSE "json_start"
            /\ outcome' = outcome
    /\ UNCHANGED <<args, env, conn, clientCalls, nextLine, line_count, csv_cols,
                   document, json_array, calls, upserted_docs, store, pos, length>>

\* read_and_upload_csv, lines 149-153: reader, line_count, document, progress bar
CsvStart ==
    /\ pc = "csv_start"
    /\ line_count' = 0
    /\ document' = EmptyDict
    /\ nextLine' = 1
    /\ length' = SourceSize(env.file.lines)
    /\ pos' = 0
    /\ pc' = "csv_loop"
    /\ UNCHANGED <<args, env, outcome, conn, clientCalls, fileOpen, fileOpened,
                   csv_cols, json_array, calls, upserted_docs, store, output>>

\* read_and_upload_csv, lines 154-166: one iteration of `for row in csv_reader`
CsvStep ==
    /\ pc = "csv_loop"
    /\ nextLine <= Len(env.file.lines)
    /\ LET row == CsvRow(env.file.lines[nextLine], Delimiter(FileType))
       IN  IF line_count = 0
           THEN /\ csv_cols' = row
                /\ line_count' = line_count + 1
                /\ nextLine' = nextLine + 1
                /\ UNCHANGED <<pc, outcome, fileOpen, document, calls, upserted_docs,
                               store, pos>>
           ELSE LET f == FillDocument(document, csv_cols, row, 1)
                IN  /\ document' = f.doc
                    /\ UNCHANGED <<csv_cols, line_count>>
                    /\ IF f.raised
                       THEN /\ outcome' = Raised("IndexError", "list index out of range")
                            /\ pc' = "done"
                            /\ fileOpen' = StreamOpenAfterExit(TRUE)
                            /\ UNCHANGED <<nextLine, calls, upserted_docs, store, pos>>
                       ELSE \E ok \in BOOLEAN :
                            /\ calls' = Append(calls, [doc |-> f.doc, ok |-> ok,
                                                       streamOpen |-> fileOpen])
                            /\ pc' = PcAfterUpsert("csv_loop", ok)
                            /\ IF ok
                               THEN /\ upserted_docs' = upserted_docs \o
                                          <<[kind |-> "marker", idx |-> 0],
                                            [kind |-> "document", idx |-> 0]>>
                                    /\ store' = Append(store, f.doc)
                                    /\ pos' = pos + GetSizeOfRow(row)
                               ELSE UNCHANGED <<upserted_docs, store, pos>>
                            /\ IF pc' = "done"
                               THEN /\ outcome' = UpsertFailure("csv_loop")
                                    /\ fileOpen' = StreamOpenAfterExit(TRUE)
                                    /\ nextLine' = nextLine
                               ELSE /\ nextLine' = nextLine + 1
                                    /\ UNCHANGED <<outcome, fileOpen>>
    /\ UNCHANGED <<args, env, conn, clientCalls, fileOpened, json_array, length, output>>

\* read_and_upload_csv, line 167, and the return through read_and_upload to upload
CsvDone ==
    /\ pc = "csv_loop"
    /\ nextLine > Len(env.file.lines)
    /\ output' = Append(output, MsgComplete)
    /\ fileOpen' = StreamOpenAfterExit(FALSE)
    /\ outcome' = Ok
    /\ pc' = "done"
    /\ UNCHANGED <<args, env, conn, clientCalls, fileOpened, nextLine, line_count,
                   csv_cols, document, json_array, calls, upserted_docs, store, pos,
                   length>>

\* read_and_upload_json, lines 175-176: json.load and the progress bar's length
JsonStart ==
    /\ pc = "json_start"
    /\ IF ~JsonLoads(env.file)
       THEN /\ outcome' = Raised("JSONDecodeError", "Expecting value")
            /\ pc' = "done"
            /\ fileOpen' = StreamOpenAfterExit(TRUE)
            /\ UNCHANGED <<json_array, length, pos, nextLine>>
       ELSE /\ json_array' = env.file.doc
            /\ IF ~HasLen(env.file.doc)
               THEN /\ outcome' = Raised("TypeError", "object has no len()")
                    /\ pc' = "done"
                    /\ fileOpen' = StreamOpenAfterExit(TRUE)
                    /\ UNCHANGED <<length, pos, nextLine>>
               ELSE /\ length' = PyLen(env.file.doc)
                    /\ pos' = 0
                    /\ nextLine' = 1
                    /\ pc' = "json_loop"
                    /\ UNCHANGED <<outcome, fileOpen>>
    /\ UNCHANGED <<args, env, conn, clientCalls, fileOpened, line_count, csv_cols,
                   document, calls, upserted_docs, store, output>>

\* read_and_upload_json, lines 177-182: one iteration of `for item in json_array`
JsonStep ==
    /\ pc = "json_loop"
    /\ nextLine <= PyLen(json_array)
    /\ LET item == IterItem(json_array, nextLine)
       IN  \E ok \in BOOLEAN :
           /\ calls' = Append(calls, [doc |-> item, ok |-> ok, streamOpen |-> fileOpen])
           /\ pc' = PcAfterUpsert("json_loop", ok)
           /\ IF ok
              THEN /\ upserted_docs' = upserted_docs \o
                         <<[kind |-> "marker", idx |-> 0],
                           [kind |-> "item", idx |-> nextLine]>>
                   /\ store' = Append(store, item)
                   /\ pos' = pos + GetSizeOfItem(item)
              ELSE UNCHANGED <<upserted_docs, store, pos>>
           /\ IF pc' = "done"
              THEN /\ outcome' = UpsertFailure("json_loop")
                   /\ fileOpen' = StreamOpenAfterExit(TRUE)
                   /\ nextLine' = nextLine
              ELSE /\ nextLine' = nextLine + 1
                   /\ UNCHANGED <<outcome, fileOpen>>
    /\ UNCHANGED <<args, env, conn, clientCalls, fileOpened, line_count, csv_cols,
                   document, json_array, length, output>>

\* read_and_upload_json falls off its end: no echo, the return to upload
JsonDone ==
    /\ pc = "json_loop"
    /\ nextLine > PyLen(json_array)
    /\ fileOpen' = StreamOpenAfterExit(FALSE)
    /\ outcome' = Ok
    /\ pc' = "done"
    /\ UNCHANGED <<args, env, conn, clientCalls, fileOpened, nextLine, line_count,
                   csv_cols, document, json_array, calls, upserted_docs, store, pos,
                   length, output>>

Next ==
    \/ Validate
    \/ Connect
    \/ OpenSource
    \/ CsvStart
    \/ CsvStep
    \/ CsvDone
    \/ JsonStart
    \/ JsonStep
    \/ JsonDone

Spec == Init /\ [][Next]_vars

----------------------------------------------------------------------------
(* What the mock sink holds: MockContainerClient.upserted_docs keeps the object *)
(* it was passed, so an entry reads as the object is now                        *)

Deref(e) ==
    IF e.kind = "document" THEN document ELSE IterItem(json_array, e.idx)

----------------------------------------------------------------------------
(* Vocabulary of the properties *)

IsDelimitedRun == FileType \in DelimiterKeys /\ env.file.fmt = "text"

Lines == env.file.lines
ParsedRow(i) == CsvRow(Lines[i], Delimiter(FileType))
Header == ParsedRow(1)
DataRow(i) == ParsedRow(i + 1)
NumDataRows == IF Len(Lines) = 0 THEN 0 ELSE Len(Lines) - 1

HeaderNames == {Header[j] : j \in 1..Len(Header)}

\* a header line and data rows of the header's width
HeaderAndRowsOfItsWidth ==
    /\ Len(Lines) >= 1
    /\ \A r \in 1..NumDataRows : Len(DataRow(r)) = Len(Header)

DistinctHeaderNames == \A i, j \in 1..Len(Header) : Header[i] = Header[j] => i = j

WellFormedDelimited == HeaderAndRowsOfItsWidth /\ DistinctHeaderNames

\* doc is the record of data row r: its keys are the header's names, and each
\* header column maps to the row's value at the same column index
IsRecordOfRow(doc, r) ==
    /\ DOMAIN doc = HeaderNames
    /\ \A j \in 1..Len(Header) : doc[Header[j]] = DataRow(r)[j]

\* a structured source as the format asks for it
IsArrayOfObjects(v) ==
    v.kind = "array" /\ \A i \in 1..Len(v.items) : v.items[i].kind = "object"

WellFormedInput ==
    \/ IsDelimitedRun /\ WellFormedDelimited
    \/ ~(FileType \in DelimiterKeys) /\ env.file.fmt = "json"
          /\ IsArrayOfObjects(env.file.doc)

\* the text holds an AccountEndpoint= and an AccountKey= with a semicolon between them
SegmentsSeparated(cs) ==
    \E i, j, k \in 1..Len(cs) :
        /\ cs[i] = EP /\ cs[j] = KY /\ cs[k] = SEMI
        /\ (i < k /\ k < j) \/ (j < k /\ k < i)

AllAccepted == \A k \in 1..Len(calls) : calls[k].ok

Count(s, x) == Cardinality({i \in 1..Len(s) : s[i] = x})

\* the run got as far as opening the source and has ended
PipelineEnded == pc = "done" /\ fileOpened

----------------------------------------------------------------------------
(* C1, as stated: for a delimited input with a header and N data rows of    *)
(* the header's width, and a sink that accepts every upsert, the calls made *)
(* are, in row order, the records of the data rows (each header column to   *)
(* the row's value at the same column index), N of them when the run ends.  *)
C1_AnyHeader ==
    (IsDelimitedRun /\ HeaderAndRowsOfItsWidth /\ AllAccepted) =>
        /\ Len(calls) <= NumDataRows
        /\ \A r \in 1..Len(calls) : IsRecordOfRow(calls[r].doc, r)
        /\ PipelineEnded => (outcome = Ok /\ Len(calls) = NumDataRows)

(* C1, amended: the same for a header of pairwise distinct column names:    *)
(* the calls made so far are, in row order, the records of the data rows,   *)
(* never more than N of them, and exactly N when the run has ended with     *)
(* exit code 0; the header line is not upserted.                            *)
C1_UpsertPerRow ==
    (IsDelimitedRun /\ WellFormedDelimited /\ AllAccepted) =>
        /\ Len(calls) <= NumDataRows
        /\ \A r \in 1..Len(calls) : IsRecordOfRow(calls[r].doc, r)
        /\ PipelineEnded => (outcome = Ok /\ Len(calls) = NumDataRows)

\* C1 witness: a finished run over two distinct data rows of a two-column header
C1_Witness ==
    /\ IsDelimitedRun /\ WellFormedDelimited /\ PipelineEnded /\ outcome = Ok
    /\ Len(calls) = 2
    /\ Len(Header) = 2
    /\ calls[1].doc # calls[2].doc

(* C2: a run with a recognised extension, a URI and a key, against the real *)
(* client and a store that accepts the credentials and every upsert, never  *)
(* reports an authentication failure, and ends with exit code 0 after       *)
(* upserting every record of the file.                                      *)
C2_EndToEndSuccess ==
    (/\ ~env.patched /\ env.credsAccepted /\ env.fileExists
     /\ EndsWithFileEnding(args.source)
     /\ args.uri.some /\ args.primary_key.some
     /\ IsDelimitedRun /\ WellFormedDelimited /\ AllAccepted) =>
        /\ outcome.msg # MsgAuth
        /\ pc = "done" =>
              (ExitCode(outcome) = 0 /\ fileOpened /\ Len(calls) = NumDataRows)

(* C3: in either loop a failed upsert is the last call of the run: the run  *)
(* has ended with a non-zero exit, no completion message was echoed, every  *)
(* earlier call was accepted and the store holds exactly those records.     *)
C3_StopOnFirstError ==
    \A k \in 1..Len(calls) :
        ~calls[k].ok =>
            /\ k = Len(calls)
            /\ pc = "done"
            /\ ExitCode(outcome) > 0
            /\ ~Contains(output, MsgComplete)
            /\ Len(store) = k - 1
            /\ \A i \in 1..(k - 1) : calls[i].ok /\ store[i] = calls[i].doc

\* C3 witness: the structured loop, its second upsert rejected after one accepted
C3_Witness ==
    /\ FileType = "JSON"
    /\ Len(calls) = 2
    /\ calls[1].ok /\ ~calls[2].ok
    /\ Len(store) = 1

(* C4: without both a URI and a key, and without a connection string that   *)
(* holds an AccountEndpoint= and an AccountKey= segment separated by a      *)
(* semicolon, the run ends with a configuration error and non-zero exit,    *)
(* the store client is never constructed, the source never opened and no    *)
(* upsert attempted.                                                        *)
C4_CredentialGating ==
    (/\ ~(args.uri.some /\ args.primary_key.some)
     /\ ~(args.connection_string.some /\ SegmentsSeparated(args.connection_string.val))) =>
        /\ clientCalls = 0
        /\ ~fileOpened
        /\ calls = <<>>
        /\ pc = "done" => (outcome.kind = "BadParameter" /\ ExitCode(outcome) > 0)

(* C5: a JSON source that parses but is not an array of objects ends in a   *)
(* fatal error and no upsert call is ever made.                             *)
C5_NonArrayIsFatal ==
    (/\ ~(FileType \in DelimiterKeys) /\ env.file.fmt = "json"
     /\ ~IsArrayOfObjects(env.file.doc)) =>
        /\ calls = <<>>
        /\ PipelineEnded => ExitCode(outcome) > 0

(* C6: a data row shorter or longer than the header raises no error: with a *)
(* sink that accepts every upsert the run ends normally and has upserted    *)
(* one record per data row.                                                 *)
C6_MismatchNonFatal ==
    (IsDelimitedRun /\ AllAccepted /\ PipelineEnded) =>
        (outcome = Ok /\ Len(calls) = NumDataRows)

(* C7: a run that exhausted its source without a failed upsert echoed the   *)
(* completion message exactly once, as its last line, and exits 0, for the  *)
(* delimited and the structured variant alike; an aborted run echoed none.  *)
C7_CompletionReport ==
    (WellFormedInput /\ PipelineEnded) =>
        IF outcome = Ok
        THEN /\ Count(output, MsgComplete) = 1
             /\ output[Len(output)] = MsgComplete
             /\ ExitCode(outcome) = 0
        ELSE Count(output, MsgComplete) = 0

(* C8: after a delimited import of N well-formed rows, the sink that kept   *)
(* the documents it was passed holds N documents and the i-th still carries *)
(* row i's values.                                                          *)
C8_RecordsIndependent ==
    (IsDelimitedRun /\ WellFormedDelimited /\ PipelineEnded /\ outcome = Ok) =>
        /\ Len(upserted_docs) = 2 * NumDataRows
        /\ \A r \in 1..NumDataRows : IsRecordOfRow(Deref(upserted_docs[2 * r]), r)

(* C9: over a well-formed input, units-completed never decreases, advances  *)
(* only with an accepted upsert, and never exceeds units-total.             *)
C9_ProgressWithinTotal ==
    [][WellFormedInput =>
          /\ pos' >= pos
          /\ pos' > pos => (Len(calls') = Len(calls) + 1 /\ calls'[Len(calls')].ok)
          /\ pos' <= length']_vars

(* C10: a run that opened the source has closed it by the time it ends, on  *)
(* every exit path, and every upsert call was made while it was open.       *)
C10_StreamReleased ==
    /\ pc = "done" => ~fileOpen
    /\ fileOpen => fileOpened
    /\ \A k \in 1..Len(calls) : calls[k].streamOpen

\* C10 witness: a run ended by the IndexError of a short row after one upsert
C10_Witness ==
    /\ PipelineEnded
    /\ outcome.kind = "IndexError"
    /\ Len(calls) = 1
    /\ ~fileOpen

====
